---- MODULE Spec2Model ----
(***************************************************************************)
(* Model of src/Lemonade.py, the Sipzooppp order app (Streamlit).          *)
(*                                                                         *)
(* One step of the model is one user interaction of one browser session    *)
(* and the script run it triggers: Streamlit first applies the widget      *)
(* change, then runs the on_click callback, then executes the script from  *)
(* top to bottom.  An exception raised in a callback ends the run before   *)
(* the script body is executed.                                            *)
(*                                                                         *)
(* Money is kept in cents: every catalog price is a multiple of 0.25, so   *)
(* the float sums of the program are exact.  A string is a sequence of     *)
(* characters; "SUP2" stands for the single character U+00B2 (superscript  *)
(* two).  The Timestamp column is left out: no operation reads it.         *)
(***************************************************************************)
EXTENDS Integers, Sequences, FiniteSets, TLC

\* ---------------------------------------------------------------- constants

MAX_QTY == 8

MOBILE_LEN == 10

\* The catalog, in the dict's insertion order, and its prices in cents.
CATALOG ==
  << "Classic Lemonade", "Strawberry Mint", "Iced Tea Fusion",
     "Blue Raspberry Zest", "Sparkling Limeade", "Ginger Honey Detox",
     "Watermelon Basil Cooler", "Tropical Mango Blend" >>

PRICE ==
  [ n \in {CATALOG[i] : i \in 1..Len(CATALOG)} |->
      CASE n = "Classic Lemonade"        -> 400
        [] n = "Strawberry Mint"         -> 550
        [] n = "Iced Tea Fusion"         -> 450
        [] n = "Blue Raspberry Zest"     -> 525
        [] n = "Sparkling Limeade"       -> 500
        [] n = "Ginger Honey Detox"      -> 575
        [] n = "Watermelon Basil Cooler" -> 600
        [] n = "Tropical Mango Blend"    -> 625 ]

\* ------------------------------------------------------------------- bounds

\* At most MaxOrders orders pass the validation of the checkout in a run.
MaxOrders == 2

\* The model keeps the first two entries of the catalog.
PRODUCTS == SubSeq(CATALOG, 1, 2)

ProductSet == {PRODUCTS[i] : i \in 1..Len(PRODUCTS)}

\* The browser tabs connected to the one server process.  A tab holds one
\* Streamlit session at a time.
Sessions == {"s1", "s2"}

\* Quantities a user tries to enter in a number_input: the two ends of the
\* range and the values next to them outside it.
QtyInputs == {-1, 0, MAX_QTY, MAX_QTY + 1}

AsciiDigits == {"0", "1", "2", "3", "4", "5", "6", "7", "8", "9"}

\* Characters for which Python's str.isdigit() is true: the decimal digits
\* and the other Unicode digits, among them the superscript digits.
IsDigitChars == AsciiDigits \cup {"SUP2"}

M_VALID == <<"0", "1", "2", "3", "4", "5", "6", "7", "8", "9">>

M_SHORT == <<"1", "2", "3", "4", "5">>

M_ALPHA == <<"1", "2", "3", "4", "5", "a", "b", "c", "d", "e">>

M_SUPER == [i \in 1..MOBILE_LEN |-> "SUP2"]

N_EMPTY == <<>>

N_BLANK == <<" ">>

N_ANN == <<"A", "n", "n">>

\* What a user types in the two text inputs before clicking Checkout:
\* <<customer name, mobile number>>.
CheckoutInputs ==
  { <<N_EMPTY, M_VALID>>, <<N_BLANK, M_VALID>>, <<N_ANN, <<>> >>,
    <<N_ANN, M_SHORT>>, <<N_ANN, M_ALPHA>>, <<N_ANN, M_SUPER>>,
    <<N_ANN, M_VALID>> }

\* ------------------------------------------------------------ pure helpers

Zeros == [p \in ProductSet |-> 0]

\* number_input without its max_value.
number_input_NoMax(q) == q >= 0

\* min_value=0, max_value=MAX_QTY of st.number_input: the widget commits a
\* value only inside the range.
number_input(q) == q >= 0 /\ q <= MAX_QTY

\* str.isdigit(): non-empty and every character a (Unicode) digit.
isdigit(str) == Len(str) > 0 /\ \A i \in 1..Len(str) : str[i] \in IsDigitChars

\* The loop over st.session_state.cart.items(): the lines with qty > 0, in
\* the catalog's order, and the running total, after the first i products.
RECURSIVE CartScan(_, _)
CartScan(crt, i) ==
  IF i = 0 THEN [cart_items |-> <<>>, cart_total |-> 0]
  ELSE LET prev == CartScan(crt, i - 1)
           name == PRODUCTS[i]
           qty == crt[name]
           price == PRICE[name]
           line_total == qty * price
       IN IF qty > 0
          THEN [cart_items |->
                  Append(prev.cart_items,
                         [Item |-> name, Quantity |-> qty,
                          Price |-> price, LineTotal |-> line_total]),
                cart_total |-> prev.cart_total + line_total]
          ELSE prev

cart_items(crt) == CartScan(crt, Len(PRODUCTS)).cart_items

cart_total(crt) == CartScan(crt, Len(PRODUCTS)).cart_total

\* order_history['Total Price ($)'].sum()
RECURSIVE total_revenue(_)
total_revenue(oh) ==
  IF oh = <<>> THEN 0 ELSE oh[1].TotalPrice + total_revenue(Tail(oh))

RECURSIVE SumQuantity(_)
SumQuantity(items) ==
  IF items = <<>> THEN 0 ELSE items[1].Quantity + SumQuantity(Tail(items))

\* total_items counting the lines of each order instead of their quantities.
RECURSIVE total_items_CountLines(_)
total_items_CountLines(oh) ==
  IF oh = <<>> THEN 0
  ELSE Len(oh[1].ItemsOrdered) + total_items_CountLines(Tail(oh))

\* sum(item['Quantity'] for cart in order_history['Items Ordered'] for item in cart)
RECURSIVE total_items(_)
total_items(oh) ==
  IF oh = <<>> THEN 0 ELSE SumQuantity(oh[1].ItemsOrdered) + total_items(Tail(oh))

NoMetrics ==
  [shown |-> FALSE, total_orders |-> 0, total_revenue |-> 0, total_items |-> 0]

\* The "Sales Analytics" tab: three metrics for a non-empty history, an info
\* message and no metric for an empty one.
SalesAnalytics(oh) ==
  IF oh # <<>>
  THEN [shown |-> TRUE, total_orders |-> Len(oh),
        total_revenue |-> total_revenue(oh), total_items |-> total_items(oh)]
  ELSE NoMetrics

\* What one complete script run leaves on the page: the cart table and the
\* arguments bound to the Checkout button, and the analytics.
Render(crt, oh) ==
  [rendered |-> TRUE, cart_items |-> cart_items(crt),
   cart_total |-> cart_total(crt), metrics |-> SalesAnalytics(oh)]

\* The page after a run that ended in an uncaught exception: the error alone.
ErrorPage ==
  [rendered |-> FALSE, cart_items |-> <<>>, cart_total |-> 0, metrics |-> NoMetrics]

\* DataFrame.to_csv: one row per order, the item list written as its str().
CsvRow(r) ==
  [CustomerName |-> r.CustomerName, MobileNumber |-> r.MobileNumber,
   ItemsOrdered |-> [text |-> r.ItemsOrdered], TotalPrice |-> r.TotalPrice]

to_csv(oh) == [i \in 1..Len(oh) |-> CsvRow(oh[i])]

RECURSIVE StripZeros(_)
StripZeros(m) ==
  IF Len(m) > 1 /\ Head(m) = "0" THEN StripZeros(Tail(m)) ELSE m

\* pd.read_csv: a column whose every field is a decimal number is read as
\* integers, which drops leading zeros; 'Items Ordered' goes through the
\* converter.
read_csv(rows) ==
  LET numeric ==
        \A i \in 1..Len(rows) :
          /\ Len(rows[i].MobileNumber) > 0
          /\ \A j \in 1..Len(rows[i].MobileNumber) :
               rows[i].MobileNumber[j] \in AsciiDigits
  IN [i \in 1..Len(rows) |->
        [CustomerName |-> rows[i].CustomerName,
         MobileNumber |-> IF numeric THEN StripZeros(rows[i].MobileNumber)
                          ELSE rows[i].MobileNumber,
         ItemsOrdered |-> rows[i].ItemsOrdered.text,
         TotalPrice |-> rows[i].TotalPrice]]

\* load_orders(): an empty history when the file is missing or has no
\* content, the parsed rows when read_csv returns, and an empty history with
\* an error message when read_csv or the converter raises.
load_orders(file, raises) ==
  LET file_exists == file.exists /\ Len(file.rows) > 0
  IN IF file_exists
     THEN IF raises THEN [df |-> <<>>, error |-> TRUE]
          ELSE [df |-> read_csv(file.rows), error |-> FALSE]
     ELSE [df |-> <<>>, error |-> FALSE]

\* save_orders(df): to_csv opens the file for writing, which truncates it,
\* and writes the rows.  w = <<"ok", n>>: all n rows written; <<"denied", 0>>:
\* the open fails and the file is untouched; <<"partial", k>>: the write
\* stops after k rows (disk full, or the process dies).
save_orders(file, df, w) ==
  CASE w[1] = "ok"      -> [exists |-> TRUE, rows |-> to_csv(df)]
    [] w[1] = "denied"  -> file
    [] w[1] = "partial" -> [exists |-> TRUE, rows |-> SubSeq(to_csv(df), 1, w[2])]

WriteOutcomes(n) ==
  {<<"ok", n>>, <<"denied", 0>>} \cup {<<"partial", k>> : k \in 0..(n - 1)}

\* concat with its two frames in the wrong order.
concat_Swapped(oh, new_order) == <<new_order>> \o oh

\* pd.concat([order_history, new_order], ignore_index=True)
concat(oh, new_order) == Append(oh, new_order)

\* clear_cart without the reset of the widget keys.
clear_cart_KeepInputs(crt, inp) ==
  [cart |-> [p \in ProductSet |-> 0], input |-> inp]

\* clear_cart(): the cart and every input_<name> widget key back to 0.
clear_cart(crt, inp) ==
  [cart |-> [p \in ProductSet |-> 0], input |-> [p \in ProductSet |-> 0]]

\* ------------------------------------------------------------------- state

VARIABLES
  started,        \* started[s]: session s has run the script at least once
  order_history,  \* st.session_state.order_history of each session
  cart,           \* st.session_state.cart of each session
  input,          \* st.session_state["input_<name>"] of each session
  ui,             \* what the last script run of each session rendered
  csv,            \* the file DATA_FILE on disk
  data_file,      \* the value cached by get_unique_filename ("" = not yet)
  event,          \* the last interaction and the message it showed
  placed          \* the number of orders that passed the validation so far

vars ==
  <<started, order_history, cart, input, ui, csv, data_file, event, placed>>

NoFile == [exists |-> FALSE, rows |-> <<>>]

\* @st.cache_resource: computed by the first call, the same value afterwards.
get_unique_filename ==
  IF data_file # "" THEN data_file ELSE "orders_START.csv"

Init ==
  /\ started = [s \in Sessions |-> FALSE]
  /\ order_history = [s \in Sessions |-> <<>>]
  /\ cart = [s \in Sessions |-> Zeros]
  /\ input = [s \in Sessions |-> Zeros]
  /\ ui = [s \in Sessions |-> ErrorPage]
  /\ csv = NoFile
  /\ data_file = ""
  /\ event = [s |-> "", op |-> "init", result |-> ""]
  /\ placed = 0

\* One execution of the script body for session s, the session state being
\* oh (order history) and inp (number inputs) after the callbacks.
RunScript(s, oh, inp, ev) ==
  /\ data_file' = get_unique_filename
  /\ started' = [started EXCEPT ![s] = TRUE]
  /\ order_history' = [order_history EXCEPT ![s] = oh]
  /\ input' = [input EXCEPT ![s] = inp]
  /\ cart' = [cart EXCEPT ![s] = [p \in ProductSet |-> inp[p]]]
  /\ ui' = [ui EXCEPT ![s] = Render([p \in ProductSet |-> inp[p]], oh)]
  /\ event' = ev

\* The first run of a new session: st.session_state is empty, so the
\* history is loaded from disk and the cart and the inputs are set to 0.
NewSession(s, op) ==
  /\ \E raises \in BOOLEAN :
       LET l == load_orders(csv, raises)
       IN RunScript(s, l.df, Zeros,
                    [s |-> s, op |-> op,
                     result |-> IF l.error THEN "LoadError" ELSE "ok"])
  /\ UNCHANGED <<csv, placed>>

\* A browser tab opens the app.
Start(s) ==
  /\ ~started[s]
  /\ NewSession(s, "start")

\* The user reloads the page: Streamlit drops the tab's session with its
\* st.session_state and starts a new one.
Reload(s) ==
  /\ started[s]
  /\ NewSession(s, "reload")

\* The user enters q in the number input of product p.
SetQuantity(s, p, q) ==
  /\ started[s]
  /\ ui[s].rendered
  /\ IF number_input(q)
     THEN /\ q # input[s][p]
          /\ RunScript(s, order_history[s], [input[s] EXCEPT ![p] = q],
                       [s |-> s, op |-> "set", result |-> "ok"])
          /\ UNCHANGED <<csv, placed>>
     ELSE /\ event' = [s |-> s, op |-> "set", result |-> "rejected"]
          /\ UNCHANGED <<started, order_history, cart, input, ui, csv,
                         data_file, placed>>

\* The "Clear Current Cart" button, shown when the cart has a line.
ClearCart(s) ==
  /\ started[s]
  /\ ui[s].rendered
  /\ ui[s].cart_items # <<>>
  /\ RunScript(s, order_history[s], clear_cart(cart[s], input[s]).input,
               [s |-> s, op |-> "clear", result |-> "CartCleared"])
  /\ UNCHANGED <<csv, placed>>

\* The callback of the Checkout button and the run that follows it.
place_order_and_rerun(s, cart_details, total_price, name, mobile, w) ==
  IF Len(name) = 0
  THEN /\ RunScript(s, order_history[s], input[s],
                    [s |-> s, op |-> "checkout", result |-> "MissingName"])
       /\ UNCHANGED <<csv, placed>>
  ELSE IF Len(mobile) = 0 \/ ~isdigit(mobile) \/ Len(mobile) # MOBILE_LEN
  THEN /\ RunScript(s, order_history[s], input[s],
                    [s |-> s, op |-> "checkout", result |-> "InvalidMobile"])
       /\ UNCHANGED <<csv, placed>>
  ELSE IF total_price <= 0
  THEN /\ RunScript(s, order_history[s], input[s],
                    [s |-> s, op |-> "checkout", result |-> "EmptyCart"])
       /\ UNCHANGED <<csv, placed>>
  ELSE LET new_order == [CustomerName |-> name, MobileNumber |-> mobile,
                         ItemsOrdered |-> cart_details,
                         TotalPrice |-> total_price]
           oh == concat(order_history[s], new_order)
       IN /\ placed' = placed + 1
          /\ csv' = save_orders(csv, oh, w)
          /\ IF w[1] = "ok"
             THEN RunScript(s, oh, clear_cart(cart[s], input[s]).input,
                            [s |-> s, op |-> "checkout", result |-> "OrderPlaced"])
             ELSE \* to_csv raised: the callback and the run end here
                  /\ order_history' = [order_history EXCEPT ![s] = oh]
                  /\ ui' = [ui EXCEPT ![s] = ErrorPage]
                  /\ event' = [s |-> s, op |-> "checkout", result |-> "WriteError"]
                  /\ UNCHANGED <<started, cart, input, data_file>>

\* A click on the "Checkout & Place Order" button, shown when the cart has a
\* line, the user having typed in[1] and in[2] and the write ending as w; the
\* button's arguments are the values of the last run.
CheckoutStep(s, in, w) ==
  /\ started[s]
  /\ ui[s].rendered
  /\ ui[s].cart_items # <<>>
  /\ placed < MaxOrders
  /\ place_order_and_rerun(s, ui[s].cart_items, ui[s].cart_total,
                           in[1], in[2], w)

\* The ways the write of session s's next order can end.
Writes(s) == WriteOutcomes(Len(order_history[s]) + 1)

Checkout(s) ==
  \E in \in CheckoutInputs : \E w \in Writes(s) : CheckoutStep(s, in, w)

\* The user reruns the app from the error page (a rerun of a rendered page
\* changes nothing).
Rerun(s) ==
  /\ started[s]
  /\ ~ui[s].rendered
  /\ RunScript(s, order_history[s], input[s],
               [s |-> s, op |-> "rerun", result |-> "ok"])
  /\ UNCHANGED <<csv, placed>>

\* One browser tab, the single-session use the app is written for.
Next ==
  \/ Start("s1")
  \/ Reload("s1")
  \/ \E p \in ProductSet : \E q \in QtyInputs : SetQuantity("s1", p, q)
  \/ ClearCart("s1")
  \/ Checkout("s1")
  \/ Rerun("s1")

Spec == Init /\ [][Next]_vars

\* Two browser tabs open at once, neither reloaded.
NextTwoTabs ==
  \/ \E s \in Sessions : Start(s)
  \/ \E s \in Sessions : \E p \in ProductSet : \E q \in QtyInputs : SetQuantity(s, p, q)
  \/ \E s \in Sessions : ClearCart(s)
  \/ \E s \in Sessions : Checkout(s)
  \/ \E s \in Sessions : Rerun(s)

SpecTwoTabs == Init /\ [][NextTwoTabs]_vars

\* Two browser tabs, each reloaded at will.
NextAll ==
  \/ NextTwoTabs
  \/ \E s \in Sessions : Reload(s)

SpecAll == Init /\ [][NextAll]_vars

\* ------------------------------------------------- vocabulary of the claims

IsPrefix(a, b) == Len(a) <= Len(b) /\ SubSeq(b, 1, Len(a)) = a

Last(seq) == seq[Len(seq)]

\* Exactly 10 characters, each a decimal digit 0..9.
TenDecimalDigits(m) ==
  Len(m) = 10 /\ \A i \in 1..Len(m) : m[i] \in AsciiDigits

\* Non-empty after trimming whitespace.
NonBlank(name) == \E i \in 1..Len(name) : name[i] # " "

\* The cart's lines with quantity > 0, in catalog order.
ExpectedLines(crt) ==
  LET names == SelectSeq(PRODUCTS, LAMBDA n : crt[n] > 0)
  IN [i \in 1..Len(names) |->
        [Item |-> names[i], Quantity |-> crt[names[i]],
         Price |-> PRICE[names[i]],
         LineTotal |-> crt[names[i]] * PRICE[names[i]]]]

RECURSIVE SumOver(_, _, _)
SumOver(f(_), seq, n) ==
  IF n = 0 THEN 0 ELSE f(seq[n]) + SumOver(f, seq, n - 1)

LineTotalOf(item) == item.LineTotal

QuantityOf(item) == item.Quantity

TotalPriceOf(r) == r.TotalPrice

ItemCountOf(r) == SumOver(QuantityOf, r.ItemsOrdered, Len(r.ItemsOrdered))

\* The cart total: the sum of the line totals.
ExpectedTotal(crt) ==
  SumOver(LineTotalOf, ExpectedLines(crt), Len(ExpectedLines(crt)))

\* ---------------------------------------------------------------------- C1

\* C1: a checkout with an empty customer name, a mobile number that is not
\* exactly 10 decimal digits, or a cart total that is not > 0 changes neither
\* the cart, nor the in-memory order log, nor the persisted file.
C1_InvalidCheckoutChangesNothing ==
  [][\A s \in Sessions : \A in \in CheckoutInputs : \A w \in Writes(s) :
       ( /\ \/ Len(in[1]) = 0
            \/ ~TenDecimalDigits(in[2])
            \/ ExpectedTotal(cart[s]) <= 0
         /\ CheckoutStep(s, in, w) )
       => UNCHANGED <<cart, order_history, csv>>]_vars

\* C1, for the checkouts the code itself rejects: a checkout that ends in
\* one of the three validation messages changes neither the cart, nor the
\* in-memory order log, nor the persisted file.
C1_RejectedCheckoutChangesNothing ==
  [][\A s \in Sessions : \A in \in CheckoutInputs : \A w \in Writes(s) :
       ( /\ event'.result \in {"MissingName", "InvalidMobile", "EmptyCart"}
         /\ CheckoutStep(s, in, w) )
       => UNCHANGED <<cart, order_history, csv>>]_vars

\* ---------------------------------------------------------------------- C2

\* Every checkout step of session s ends in an event of s's checkout; the
\* formulas below test this first, which spares the other steps the rest.
ByCheckout(s) == event'.op = "checkout" /\ event'.s = s

\* The record the claim expects the checkout of session s to append.
ExpectedRecord(s, in) ==
  [CustomerName |-> in[1], MobileNumber |-> in[2],
   ItemsOrdered |-> ExpectedLines(cart[s]),
   TotalPrice |-> ExpectedTotal(cart[s])]

PlacesOrder(s, in) ==
  /\ order_history'[s] = Append(order_history[s], ExpectedRecord(s, in))
  /\ \A p \in ProductSet : cart'[s][p] = 0

ValidCheckout(s, in) ==
  /\ NonBlank(in[1])
  /\ TenDecimalDigits(in[2])
  /\ ExpectedTotal(cart[s]) > 0

C3_FailedWriteRollsBack ==
  [][\A s \in Sessions : \A in \in CheckoutInputs : \A w \in Writes(s) :
       (event'.result = "WriteError" /\ CheckoutStep(s, in, w))
       => (order_history'[s] = order_history[s] /\ cart'[s] = cart[s])]_vars

\* ---------------------------------------------------------------------- C4

\* C4: in every step of a session (quantity change, clear cart, failed or
\* successful checkout, rerun with its analytics view) the previous order log
\* is a prefix of the next one.  A page reload replaces the session and its
\* log by a new session, and is no step of it.
C4_LogAppendOnly ==
  [][\A s \in Sessions :
       \/ event'.op = "reload" /\ event'.s = s
       \/ IsPrefix(order_history[s], order_history'[s])]_vars

\* Two orders are recorded and the cart has been changed since.
C4_Witness ==
  \E s \in Sessions :
    /\ Len(order_history[s]) = 2
    /\ order_history[s][1] # order_history[s][2]
    /\ event = [s |-> s, op |-> "set", result |-> "ok"]
    /\ cart[s] # Zeros

\* ---------------------------------------------------------------------- C5

\* C5: after every completed run, whenever the persisted file exists its
\* rows are the records of the in-memory order log, in the same order; and
\* after a successful checkout the file exists and its last row is the new
\* record.
C5_FileReflectsLog ==
  /\ \A s \in Sessions :
       (started[s] /\ ui[s].rendered /\ csv.exists)
       => csv.rows = to_csv(order_history[s])
  /\ event.result = "OrderPlaced"
     => /\ csv.exists
        /\ csv.rows # <<>>
        /\ Last(csv.rows) = CsvRow(Last(order_history[event.s]))

\* ---------------------------------------------------------------------- C6

\* C6: whatever happens to the write of a checkout, the persisted file holds
\* afterwards either what it held before or the complete new log.
C6_WriteAllOrNothing ==
  [][\A s \in Sessions : \A in \in CheckoutInputs : \A w \in Writes(s) :
       CheckoutStep(s, in, w)
       => \/ csv' = csv
          \/ csv' = [exists |-> TRUE, rows |-> to_csv(order_history'[s])]]_vars

\* ---------------------------------------------------------------------- C7

WellFormed(r) ==
  /\ NonBlank(r.CustomerName)
  /\ TenDecimalDigits(r.MobileNumber)
  /\ r.ItemsOrdered # <<>>
  /\ \A i \in 1..Len(r.ItemsOrdered) : r.ItemsOrdered[i].Quantity > 0
  /\ r.TotalPrice = SumOver(LineTotalOf, r.ItemsOrdered, Len(r.ItemsOrdered))
  /\ r.TotalPrice > 0

\* C7: every record of the order log is well-formed: a customer name that is
\* non-empty after trimming, a mobile number of exactly 10 decimal digits,
\* at least one item, every quantity > 0, and a total price that is the sum
\* of the line totals and > 0.
C7_RecordsWellFormed ==
  \A s \in Sessions :
    \A i \in 1..Len(order_history[s]) : WellFormed(order_history[s][i])

\* ---------------------------------------------------------------------- C8

CartInRange(crt) ==
  /\ DOMAIN crt = {PRODUCTS[i] : i \in 1..Len(PRODUCTS)}
  /\ \A n \in DOMAIN crt : crt[n] \in 0..MAX_QTY

\* C8: the cart's keys are exactly the catalog's product names and every
\* quantity is in 0..MAX_QTY, and an attempt to enter a quantity below 0 or
\* above MAX_QTY leaves the cart unchanged.
C8_CartWithinRange ==
  /\ [](\A s \in Sessions : CartInRange(cart[s]))
  /\ [][\A s \in Sessions : \A p \in ProductSet : \A q \in QtyInputs :
          ((q < 0 \/ q > MAX_QTY) /\ SetQuantity(s, p, q)) => UNCHANGED cart]_vars

\* A quantity outside the range has just been refused for a cart that holds
\* the largest quantity.
C8_Witness ==
  /\ event.op = "set" /\ event.result = "rejected"
  /\ \E p \in ProductSet : cart[event.s][p] = MAX_QTY

\* ---------------------------------------------------------------------- C9

Fold(oh) ==
  [shown |-> TRUE, total_orders |-> Len(oh),
   total_revenue |-> SumOver(TotalPriceOf, oh, Len(oh)),
   total_items |-> SumOver(ItemCountOf, oh, Len(oh))]

\* C9 as stated: the analytics of a rendered page are the fold of the whole
\* order log: the number of records, the sum of their total prices and the
\* sum of the quantities of all their items, and 0, 0.0 and 0 for an empty
\* log.
C9_AnalyticsAreFold ==
  \A s \in Sessions :
    (started[s] /\ ui[s].rendered) => ui[s].metrics = Fold(order_history[s])

\* C9 as amended: the analytics of a rendered page are that fold when the
\* order log is not empty, and no metric is reported for an empty log.
C9_AnalyticsAreFoldWhenShown ==
  \A s \in Sessions :
    (started[s] /\ ui[s].rendered)
    => IF order_history[s] # <<>>
       THEN ui[s].metrics = Fold(order_history[s])
       ELSE ~ui[s].metrics.shown

\* The analytics of a log of two orders of different totals, one of them of
\* two lines, are on the page.
C9_Witness ==
  \E s \in Sessions :
    /\ ui[s].rendered
    /\ ui[s].metrics.shown
    /\ Len(order_history[s]) = 2
    /\ order_history[s][1].TotalPrice # order_history[s][2].TotalPrice
    /\ \E i \in 1..2 : Len(order_history[s][i].ItemsOrdered) = 2

\* --------------------------------------------------------------------- C10

\* C10: the file name is the same at every call, and an order persisted by
\* one session is never lost by the rewrite of another: a successful write
\* keeps the rows the file held.
C10_NoWriterLosesOrders ==
  [][ /\ (data_file # "" => data_file' = data_file)
      /\ \A s \in Sessions : \A in \in CheckoutInputs : \A w \in Writes(s) :
           (w[1] = "ok" /\ csv.exists /\ CheckoutStep(s, in, w))
           => IsPrefix(csv.rows, csv'.rows) ]_vars

====
